---- MODULE Spec2Model ----
(***************************************************************************)
(* A model of document_analysis.py: the script's start-up credential       *)
(* check, main(), process_uploaded_file() and analyze_document(), with the *)
(* two remote calls (file upload, chat completion) as environment steps.   *)
(*                                                                         *)
(* Python values are tagged records.  A Python str is a sequence of        *)
(* non-empty text pieces whose concatenation is the string; MIME types are *)
(* kept character by character so that startswith() is computed, not       *)
(* assumed.  Two strs are equal when their concatenations are equal.       *)
(***************************************************************************)
EXTENDS Integers, Sequences, FiniteSets, TLC

VARIABLES
    pc,               \* where the script run stands
    runs,             \* script runs started so far
    OPENAI_API_KEY,   \* module global, read from the environment
    ui,               \* the st.* calls of this run, in order
    uploaded_file,    \* what the input widget returned
    file_bytes, mime_type, preview_image, filename,   \* locals of main()
    decodes,          \* Image.open calls of this run
    uploads,          \* upload requests issued in this run, in order
    chats,            \* chat requests issued in this run, in order
    upload_out,       \* how the upload call ended (response or exception)
    file_id,          \* local of analyze_document
    chat_out,         \* how the chat call ended (response or exception)
    analysis_result   \* what analyze_document returned to main()

vars == <<pc, runs, OPENAI_API_KEY, ui, uploaded_file, file_bytes, mime_type,
          preview_image, filename, decodes, uploads, chats, upload_out,
          file_id, chat_out, analysis_result>>

\* Script runs explored (Streamlit re-runs the script on every interaction).
MaxRuns == 2

(***************************************************************************)
(* Python values                                                           *)
(***************************************************************************)
None == [t |-> "None"]
Str(pieces) == [t |-> "str", s |-> pieces]
IntV(n) == [t |-> "int", n |-> n]
List(elems) == [t |-> "list", elems |-> elems]
Dict(items) == [t |-> "dict", items |-> items]
Unset == [t |-> "unset"]

RECURSIVE Flatten(_)
Flatten(pieces) ==
    IF pieces = <<>> THEN "" ELSE Head(pieces) \o Flatten(Tail(pieces))

\* a == b on two Python values
PyEq(a, b) ==
    IF a.t = "str" /\ b.t = "str" THEN Flatten(a.s) = Flatten(b.s) ELSE a = b

\* bool(v)
Truthy(v) ==
    CASE v.t = "None" -> FALSE
      [] v.t = "str"  -> Flatten(v.s) /= ""
      [] v.t = "int"  -> v.n /= 0
      [] v.t = "list" -> v.elems /= <<>>
      [] v.t = "dict" -> v.items /= <<>>
      [] OTHER        -> TRUE

\* s.startswith(prefix), on piece sequences cut at the same grain
StartsWith(s, prefix) ==
    /\ Len(s) >= Len(prefix)
    /\ SubSeq(s, 1, Len(prefix)) = prefix

\* needle occurs in hay as a contiguous run of pieces
Contains(hay, needle) ==
    \E i \in 0..(Len(hay) - Len(needle)) :
        SubSeq(hay, i + 1, i + Len(needle)) = needle

TypeName(v) == IF v.t = "None" THEN "NoneType" ELSE v.t

RECURSIVE PyRepr(_), ReprElems(_), ReprItems(_)
\* repr(v)
PyRepr(v) ==
    CASE v.t = "None" -> <<"None">>
      [] v.t = "str"  -> <<"'">> \o v.s \o <<"'">>
      [] v.t = "int"  -> <<ToString(v.n)>>
      [] v.t = "list" -> <<"[">> \o ReprElems(v.elems) \o <<"]">>
      [] v.t = "dict" -> <<"{">> \o ReprItems(v.items) \o <<"}">>
ReprElems(es) ==
    IF es = <<>> THEN <<>>
    ELSE PyRepr(Head(es))
         \o (IF Tail(es) = <<>> THEN <<>> ELSE <<", ">> \o ReprElems(Tail(es)))
ReprItems(items) ==
    IF items = <<>> THEN <<>>
    ELSE <<"'", Head(items)[1], "'", ": ">> \o PyRepr(Head(items)[2])
         \o (IF Tail(items) = <<>> THEN <<>> ELSE <<", ">> \o ReprItems(Tail(items)))

\* What an f-string puts for {v}: str(v)
Format(v) == IF v.t = "str" THEN v.s ELSE PyRepr(v)

RECURSIVE JsonText(_), JsonElems(_), JsonItems(_)
\* The compact JSON text a server sends for value v (the body of a response)
JsonText(v) ==
    CASE v.t = "None" -> <<"null">>
      [] v.t = "str"  -> <<"\"">> \o v.s \o <<"\"">>
      [] v.t = "int"  -> <<ToString(v.n)>>
      [] v.t = "list" -> <<"[">> \o JsonElems(v.elems) \o <<"]">>
      [] v.t = "dict" -> <<"{">> \o JsonItems(v.items) \o <<"}">>
JsonElems(es) ==
    IF es = <<>> THEN <<>>
    ELSE JsonText(Head(es))
         \o (IF Tail(es) = <<>> THEN <<>> ELSE <<",">> \o JsonElems(Tail(es)))
JsonItems(items) ==
    IF items = <<>> THEN <<>>
    ELSE <<"\"", Head(items)[1], "\"", ":">> \o JsonText(Head(items)[2])
         \o (IF Tail(items) = <<>> THEN <<>> ELSE <<",">> \o JsonItems(Tail(items)))

\* Outcomes of a block of code
Return(v) == [kind |-> "return", value |-> v]
Raise(type, msg) == [kind |-> "raise", exc |-> [type |-> type, msg |-> msg]]
Value(v) == [kind |-> "value", value |-> v]

(***************************************************************************)
(* Literals of the program                                                 *)
(***************************************************************************)
StatusOK == 200
StatusCreated == 201

ImagePrefix == <<"i", "m", "a", "g", "e", "/">>
PdfMime == Str(<<"application/pdf">>)
DefaultFilename == Str(<<"uploaded_document">>)
UploadUrl == "https://api.openai.com/v1/files"
Model == "gpt-5-nano"
SystemContent == "You are a helpful legal analysis assistant."
Prompt == "You are an assistant that analyzes documents. ..."
KeyErrorText == Str(<<"OpenAI API key not found in environment variable 'OPENAI_API_KEY'.">>)
PreviewWarning == Str(<<"Could not open the image for preview.">>)

Call(fn, arg) == [fn |-> fn, arg |-> arg]

(***************************************************************************)
(* The environment: what the host, the user and the two services can give  *)
(***************************************************************************)
\* os.getenv("OPENAI_API_KEY") after load_dotenv()
EnvKeys == {None, Str(<<>>), Str(<<"sk-test">>)}

MimePng  == Str(ImagePrefix \o <<"p", "n", "g">>)
MimeJpeg == Str(ImagePrefix \o <<"j", "p", "e", "g">>)
MimePdf  == Str(<<"a", "p", "p", "l", "i", "c", "a", "t", "i", "o", "n", "/", "p", "d", "f">>)
MimeBare == Str(<<"i", "m", "a", "g", "e">>)
MimeText == Str(<<"t", "e", "x", "t", "/", "p", "l", "a", "i", "n">>)
MimeTypes == {None, Str(<<>>), MimePng, MimeJpeg, MimePdf, MimeBare, MimeText}

PngBytes  == <<137, 80, 78, 71>>
JpegBytes == <<255, 216, 255>>
PdfBytes  == <<37, 80, 68, 70>>
JunkBytes == <<0>>
ByteStrings == {PngBytes, JpegBytes, PdfBytes, JunkBytes}

File(bytes, type, name) == [t |-> "file", value |-> bytes, type |-> type, name |-> name]
\* st.file_uploader(...): nothing chosen yet, or a file as the browser declares it
PickedFiles ==
    {File(b, m, n) : b \in ByteStrings, m \in MimeTypes,
                     n \in {Str(<<"scan.png">>), Unset}}
\* st.camera_input(...): no shot yet, or a JPEG snapshot
CameraFiles == {File(JpegBytes, MimeJpeg, Str(<<"camera.jpg">>))}

\* An HTTP response of the files endpoint: status, body text and, when the body
\* is JSON, the value it denotes.
JsonResponse(status, v) ==
    [status_code |-> status, text |-> JsonText(v), isjson |-> TRUE, value |-> v]
TextResponse(status, pieces) ==
    [status_code |-> status, text |-> pieces, isjson |-> FALSE, value |-> None]

UploadStatuses == {StatusOK, StatusCreated, 400, 500}
UploadJsonBodies ==
    { Dict(<< <<"id", Str(<<"file-123">>)>> >>),
      Dict(<< <<"object", Str(<<"file">>)>>, <<"id", Str(<<"file-9">>)>> >>),
      Dict(<< <<"id", IntV(7)>> >>),
      Dict(<< <<"id", Str(<<>>)>> >>),
      Dict(<< <<"id", None>> >>),
      Dict(<< <<"error", Str(<<"bad file">>)>> >>),
      Dict(<<>>),
      List(<<>>),
      None }
UploadResponses ==
    {JsonResponse(st, v) : st \in UploadStatuses, v \in UploadJsonBodies}
    \cup {TextResponse(st, <<"<html>Bad Gateway</html>">>) : st \in UploadStatuses}
UploadExceptions ==
    { [type |-> "ConnectionError", msg |-> <<"Connection refused">>],
      [type |-> "Timeout", msg |-> <<"Read timed out.">>] }

Choice(content) == [message |-> [content |-> content]]
ChatResponses ==
    { [choices |-> List(<<Choice(Str(<<"1. primary purpose ... 2. who should fill ...">>))>>)],
      [choices |-> List(<<Choice(Str(<<"first">>)), Choice(Str(<<"second">>))>>)],
      [choices |-> List(<<Choice(Str(<<"Error during analysis: ", "quoted by the model">>))>>)],
      [choices |-> List(<<Choice(None)>>)],
      [choices |-> List(<<>>)],
      [choices |-> None] }
ChatExceptions ==
    { [type |-> "APIConnectionError", msg |-> <<"Connection error.">>],
      [type |-> "AuthenticationError", msg |-> <<"Error code: 401">>] }

(***************************************************************************)
(* process_uploaded_file                                                   *)
(***************************************************************************)
\* Image.open(f): PIL recognises an image by its leading bytes, not by the
\* declared MIME type.
ImageOpen(bytes) ==
    IF StartsWith(bytes, <<137, 80>>) \/ StartsWith(bytes, <<255, 216>>)
    THEN Value([t |-> "image", data |-> bytes])
    ELSE Raise("UnidentifiedImageError", <<"cannot identify image file">>)

\* getattr(uploaded_file, "name", "uploaded_document")
GetName(f) == IF f.name = Unset THEN DefaultFilename ELSE f.name

\* Variant: the preview is tried whatever the declared type
TriesPreview_Always(type) == TRUE

\* Whether process_uploaded_file tries the preview
TriesPreview(type) == ~PyEq(type, PdfMime)

\* The preview and the st.* calls of the try block
PreviewOf(opened) ==
    IF opened.kind = "value"
    THEN [image |-> opened.value, calls |-> <<>>]
    ELSE [image |-> None, calls |-> <<Call("warning", PreviewWarning)>>]

\* Variant: the bytes are read from the stream after Image.open has consumed it
ProcessUploadedFile_ReadAfterOpen(f) ==
    LET tried == ~PyEq(f.type, PdfMime)
        pre   == IF tried THEN PreviewOf(ImageOpen(f.value))
                 ELSE [image |-> None, calls |-> <<>>]
    IN [file_bytes    |-> IF tried THEN <<>> ELSE f.value,
        mime_type     |-> f.type,
        preview_image |-> pre.image,
        filename      |-> GetName(f),
        calls         |-> pre.calls,
        decodes       |-> IF tried THEN 1 ELSE 0]

\* The whole function: the returned tuple, the st.* calls made and the number
\* of Image.open calls.
ProcessUploadedFile(f) ==
    LET tried == TriesPreview(f.type)
        pre   == IF tried THEN PreviewOf(ImageOpen(f.value))
                 ELSE [image |-> None, calls |-> <<>>]
    IN [file_bytes    |-> f.value,
        mime_type     |-> f.type,
        preview_image |-> pre.image,
        filename      |-> GetName(f),
        calls         |-> pre.calls,
        decodes       |-> IF tried THEN 1 ELSE 0]

(***************************************************************************)
(* analyze_document                                                        *)
(***************************************************************************)
\* Variant: the prefix test leaves out the slash
Purpose_NoSlash(mime) ==
    IF Truthy(mime) /\ StartsWith(mime.s, <<"i", "m", "a", "g", "e">>)
    THEN "vision" ELSE "user_data"

\* The purpose tag of the upload
Purpose(mime) ==
    IF Truthy(mime) /\ StartsWith(mime.s, ImagePrefix) THEN "vision" ELSE "user_data"

\* requests.post(upload_url, headers=headers, files=files, data=data)
UploadRequest(bytes, mime, name, key) ==
    [url     |-> UploadUrl,
     headers |-> [Authorization |-> <<"Bearer ">> \o Format(key)],
     files   |-> [file |-> [filename |-> name, content |-> bytes, mime_type |-> mime]],
     data    |-> [purpose |-> Purpose(mime)]]

\* Variant: the file part forwards the MIME type too
FileRef_WithMime(id) == [file_id |-> id, mime_type |-> "application/pdf"]

\* The file part of the user message
FileRef(id) == [file_id |-> id]

\* client.chat.completions.create(model=..., messages=[...])
ChatRequest(id) ==
    [model    |-> Model,
     messages |-> << [role |-> "system", content |-> SystemContent],
                     [role |-> "user",
                      content |-> << [type |-> "text", text |-> Prompt],
                                     [type |-> "file", file |-> FileRef(id)] >>] >>]

\* upload_resp.status_code not in (200, 201)
BadStatus(status) == status \notin {StatusOK, StatusCreated}

\* Variant: the message leaves the status code out
StatusError_NoCode(resp) == Str(<<"Error uploading file: ">> \o resp.text)

\* The string returned for a bad status
StatusError(resp) ==
    Str(<<"Error uploading file: ", ToString(resp.status_code), " - ">> \o resp.text)

\* upload_resp.json()
ResponseJson(resp) ==
    IF resp.isjson THEN Value(resp.value)
    ELSE Raise("JSONDecodeError", <<"Expecting value: line 1 column 1 (char 0)">>)

\* upload_json.get("id")
RECURSIVE Lookup(_, _)
Lookup(items, key) ==
    IF items = <<>> THEN None
    ELSE IF Head(items)[1] = key THEN Head(items)[2] ELSE Lookup(Tail(items), key)
GetId(json) ==
    IF json.t = "dict" THEN Value(Lookup(json.items, "id"))
    ELSE Raise("AttributeError",
               <<"'", TypeName(json), "' object has no attribute 'get'">>)

\* The string returned when the body carries no usable id
NoIdError(json) ==
    Str(<<"Error uploading file: ", "no file id returned: ">> \o Format(json))

\* Variant: the id is not checked before the chat call
AfterUpload_NoIdCheck(resp) ==
    IF BadStatus(resp.status_code) THEN Return(StatusError(resp))
    ELSE LET j == ResponseJson(resp) IN
         IF j.kind = "raise" THEN j
         ELSE LET g == GetId(j.value) IN
              IF g.kind = "raise" THEN g
              ELSE [kind |-> "chat", file_id |-> g.value]

\* From the upload response to the chat call: a return, an exception, or the id
\* to go on with.
AfterUpload(resp) ==
    IF BadStatus(resp.status_code) THEN Return(StatusError(resp))
    ELSE LET j == ResponseJson(resp) IN
         IF j.kind = "raise" THEN j
         ELSE LET g == GetId(j.value) IN
              IF g.kind = "raise" THEN g
              ELSE IF ~Truthy(g.value) THEN Return(NoIdError(j.value))
              ELSE [kind |-> "chat", file_id |-> g.value]

\* Variant: the last choice is taken instead of the first
FirstContent_Last(response) ==
    LET cs == response.choices IN
    IF cs.t = "None"
    THEN Raise("TypeError", <<"'NoneType' object is not subscriptable">>)
    ELSE IF cs.elems = <<>>
    THEN Raise("IndexError", <<"list index out of range">>)
    ELSE Return(cs.elems[Len(cs.elems)].message.content)

\* response.choices[0].message.content
FirstContent(response) ==
    LET cs == response.choices IN
    IF cs.t = "None"
    THEN Raise("TypeError", <<"'NoneType' object is not subscriptable">>)
    ELSE IF cs.elems = <<>>
    THEN Raise("IndexError", <<"list index out of range">>)
    ELSE Return(cs.elems[1].message.content)

\* Variant: the handler reports the exception under the upload prefix
ErrorText_UploadPrefix(exc) == Str(<<"Error uploading file: ">> \o exc.msg)

\* except Exception as e: return f"Error during analysis: {e}"
ErrorText(exc) == Str(<<"Error during analysis: ">> \o exc.msg)
Catch(outcome) ==
    IF outcome.kind = "raise" THEN Return(ErrorText(outcome.exc)) ELSE outcome

\* The value of the local file_id once line 61 has run (Unset if it never runs)
FileIdLocal(resp) ==
    IF BadStatus(resp.status_code) THEN Unset
    ELSE LET j == ResponseJson(resp) IN
         IF j.kind = "raise" THEN Unset
         ELSE LET g == GetId(j.value) IN
              IF g.kind = "raise" THEN Unset ELSE g.value

(***************************************************************************)
(* The script: start-up, main() and the steps of analyze_document          *)
(***************************************************************************)
Init ==
    /\ pc = "start"
    /\ runs = 0
    /\ OPENAI_API_KEY = Unset
    /\ ui = <<>>
    /\ uploaded_file = Unset
    /\ file_bytes = Unset
    /\ mime_type = Unset
    /\ preview_image = Unset
    /\ filename = Unset
    /\ decodes = 0
    /\ uploads = <<>>
    /\ chats = <<>>
    /\ upload_out = Unset
    /\ file_id = Unset
    /\ chat_out = Unset
    /\ analysis_result = Unset

\* if not OPENAI_API_KEY
KeyMissing(key) == ~Truthy(key)

\* Variant: the error is shown but the run is not stopped
AfterKeyCheck_NoStop(key) == "main"

\* Where the script stands after the credential check: st.stop() ends the run
AfterKeyCheck(key) == IF KeyMissing(key) THEN "halted" ELSE "main"

\* Module level: read the key, stop the run if there is none.  Every run of
\* the script starts here with fresh locals.
ScriptStart(key) ==
    /\ pc \in {"start", "idle", "halted", "crashed"}
    /\ runs < MaxRuns
    /\ runs' = runs + 1
    /\ OPENAI_API_KEY' = key
    /\ ui' = IF KeyMissing(key) THEN <<Call("error", KeyErrorText)>> ELSE <<>>
    /\ pc' = AfterKeyCheck(key)
    /\ uploaded_file' = Unset
    /\ file_bytes' = Unset
    /\ mime_type' = Unset
    /\ preview_image' = Unset
    /\ filename' = Unset
    /\ decodes' = 0
    /\ uploads' = <<>>
    /\ chats' = <<>>
    /\ upload_out' = Unset
    /\ file_id' = Unset
    /\ chat_out' = Unset
    /\ analysis_result' = Unset

\* The widget main() reads, by input method
WidgetValues(method) ==
    IF method = "Upload File" THEN PickedFiles \cup {None}
    ELSE CameraFiles \cup {None}

Intro(method) ==
    << Call("title", Str(<<"Document analysis tool">>)),
       Call("write", Str(<<"This tool analyzes documents using OpenAI's GPT-5-Nano model.">>)),
       Call("write", Str(<<"Upload an image (JPEG/PNG) or PDF of the document, or capture one using your camera.">>)),
       Call("radio", Str(<<method>>)) >>

\* What main() shows once the file is processed
PreviewCalls(mime, preview) ==
    IF ~PyEq(mime, PdfMime) /\ Truthy(preview)
    THEN <<Call("image", preview)>>
    ELSE <<Call("write", Str(<<"PDF file uploaded.">>))>>

\* main() up to the call of analyze_document
MainInput(method, f) ==
    /\ pc = "main"
    /\ f \in WidgetValues(method)
    /\ uploaded_file' = f
    /\ IF f = None
       THEN /\ pc' = "idle"
            /\ ui' = ui \o Intro(method)
            /\ UNCHANGED <<file_bytes, mime_type, preview_image, filename, decodes>>
       ELSE LET r == ProcessUploadedFile(f) IN
            /\ pc' = "analyze"
            /\ file_bytes' = r.file_bytes
            /\ mime_type' = r.mime_type
            /\ preview_image' = r.preview_image
            /\ filename' = r.filename
            /\ decodes' = r.decodes
            /\ ui' = ui \o Intro(method) \o r.calls
                        \o PreviewCalls(r.mime_type, r.preview_image)
    /\ UNCHANGED <<runs, OPENAI_API_KEY, uploads, chats, upload_out, file_id,
                   chat_out, analysis_result>>

\* analyze_document up to the upload call, which is now in flight
AnalyzeUpload ==
    /\ pc = "analyze"
    /\ ui' = Append(ui, Call("write", Str(<<"Analyzing the document, please wait...">>)))
    /\ uploads' = Append(uploads,
                         UploadRequest(file_bytes, mime_type, filename, OPENAI_API_KEY))
    /\ pc' = "await_upload"
    /\ UNCHANGED <<runs, OPENAI_API_KEY, uploaded_file, file_bytes, mime_type,
                   preview_image, filename, decodes, chats, upload_out, file_id,
                   chat_out, analysis_result>>

\* analyze_document ends: a return hands the value to main(), an exception
\* that nothing caught ends the run.
Finish(outcome) ==
    IF outcome.kind = "return"
    THEN pc' = "returned" /\ analysis_result' = outcome.value
    ELSE pc' = "crashed" /\ UNCHANGED analysis_result

\* The upload call returns a response: status and id checks, then the chat call
UploadReturns(resp) ==
    /\ pc = "await_upload"
    /\ upload_out' = [kind |-> "response", resp |-> resp]
    /\ file_id' = FileIdLocal(resp)
    /\ LET o == Catch(AfterUpload(resp)) IN
       IF o.kind = "chat"
       THEN /\ chats' = Append(chats, ChatRequest(o.file_id))
            /\ pc' = "await_chat"
            /\ UNCHANGED analysis_result
       ELSE Finish(o) /\ UNCHANGED chats
    /\ UNCHANGED <<runs, OPENAI_API_KEY, ui, uploaded_file, file_bytes, mime_type,
                   preview_image, filename, decodes, uploads, chat_out>>

\* The upload call raises
UploadRaises(exc) ==
    /\ pc = "await_upload"
    /\ upload_out' = [kind |-> "exception", exc |-> exc]
    /\ Finish(Catch([kind |-> "raise", exc |-> exc]))
    /\ UNCHANGED <<runs, OPENAI_API_KEY, ui, uploaded_file, file_bytes, mime_type,
                   preview_image, filename, decodes, uploads, chats, file_id,
                   chat_out>>

\* The chat call returns a response
ChatReturns(response) ==
    /\ pc = "await_chat"
    /\ chat_out' = [kind |-> "response", resp |-> response]
    /\ Finish(Catch(FirstContent(response)))
    /\ UNCHANGED <<runs, OPENAI_API_KEY, ui, uploaded_file, file_bytes, mime_type,
                   preview_image, filename, decodes, uploads, chats, upload_out,
                   file_id>>

\* The chat call raises
ChatRaises(exc) ==
    /\ pc = "await_chat"
    /\ chat_out' = [kind |-> "exception", exc |-> exc]
    /\ Finish(Catch([kind |-> "raise", exc |-> exc]))
    /\ UNCHANGED <<runs, OPENAI_API_KEY, ui, uploaded_file, file_bytes, mime_type,
                   preview_image, filename, decodes, uploads, chats, upload_out,
                   file_id>>

\* main() after analyze_document returned
MainDisplay ==
    /\ pc = "returned"
    /\ ui' = ui \o << Call("success", Str(<<"Analysis Complete">>)),
                      Call("write", analysis_result) >>
    /\ pc' = "idle"
    /\ UNCHANGED <<runs, OPENAI_API_KEY, uploaded_file, file_bytes, mime_type,
                   preview_image, filename, decodes, uploads, chats, upload_out,
                   file_id, chat_out, analysis_result>>

Next ==
    \/ \E key \in EnvKeys : ScriptStart(key)
    \/ \E method \in {"Upload File", "Capture Image"} :
          \E f \in WidgetValues(method) : MainInput(method, f)
    \/ AnalyzeUpload
    \/ \E resp \in UploadResponses : UploadReturns(resp)
    \/ \E exc \in UploadExceptions : UploadRaises(exc)
    \/ \E response \in ChatResponses : ChatReturns(response)
    \/ \E exc \in ChatExceptions : ChatRaises(exc)
    \/ MainDisplay

Spec == Init /\ [][Next]_vars

(***************************************************************************)
(* Vocabulary of the properties, stated on the data exchanged rather than  *)
(* on the operators above                                                  *)
(***************************************************************************)
Responded == upload_out # Unset /\ upload_out.kind = "response"
UploadThrew == upload_out # Unset /\ upload_out.kind = "exception"
ChatResponded == chat_out # Unset /\ chat_out.kind = "response"
ChatThrew == chat_out # Unset /\ chat_out.kind = "exception"

SuccessStatus(resp) == resp.status_code = 200 \/ resp.status_code = 201
IsObject(resp) == resp.isjson /\ resp.value.t = "dict"
HasKeyId(resp) ==
    IsObject(resp) /\ \E i \in 1..Len(resp.value.items) : resp.value.items[i][1] = "id"
IdOf(resp) ==
    LET i == CHOOSE i \in 1..Len(resp.value.items) : resp.value.items[i][1] = "id"
    IN resp.value.items[i][2]
\* the id is a non-empty string
WellFormedId(resp) ==
    HasKeyId(resp) /\ IdOf(resp).t = "str" /\ Flatten(IdOf(resp).s) # ""
\* the id is there and is not null, empty or zero
UsableId(resp) ==
    /\ HasKeyId(resp)
    /\ IdOf(resp).t # "None"
    /\ (IdOf(resp).t = "str" => Flatten(IdOf(resp).s) # "")
    /\ (IdOf(resp).t = "int" => IdOf(resp).n # 0)
UploadSucceeded == Responded /\ SuccessStatus(upload_out.resp) /\ UsableId(upload_out.resp)
UploadFailed == UploadThrew \/ (Responded /\ ~UploadSucceeded)

IsText(v) == v.t = "str"
TextOf(v) == Flatten(v.s)
BeginsWith(v, piece) == IsText(v) /\ Len(v.s) >= 1 /\ v.s[1] = piece
IsErrorResult(v) ==
    BeginsWith(v, "Error uploading file: ") \/ BeginsWith(v, "Error during analysis: ")
Ended == pc \in {"returned", "idle"} /\ uploads # <<>>
FileRefOf(request) == request.messages[2].content[2].file

\* C1: a chat request is issued only at the moment the upload call has returned
\* a success status with a usable id, which is then the local file_id; and once
\* the upload has failed (bad status, no id, exception) no chat request exists,
\* the invocation has ended and its result is an error string.
C1_ChatNeedsHandle ==
    /\ [](/\ chats # <<>> => UploadSucceeded /\ file_id = IdOf(upload_out.resp)
          /\ UploadFailed => /\ chats = <<>>
                             /\ chat_out = Unset
                             /\ Ended
                             /\ IsErrorResult(analysis_result))
    /\ [][Len(chats') > Len(chats) =>
            /\ pc = "await_upload"
            /\ chats = <<>>
            /\ upload_out = Unset
            /\ UploadSucceeded']_vars
C1_Witness ==
    /\ pc = "idle"
    /\ Responded /\ SuccessStatus(upload_out.resp) /\ ~HasKeyId(upload_out.resp)
    /\ chats = <<>>

\* C2: after an upload response with status 200 or 201 and a well-formed id,
\* exactly one chat request exists and its file part is the record holding
\* that id under file_id and nothing else.
C2_ChatOnceWithId ==
    (Responded /\ SuccessStatus(upload_out.resp) /\ WellFormedId(upload_out.resp))
    => /\ Len(chats) = 1
       /\ FileRefOf(chats[1]) = [file_id |-> IdOf(upload_out.resp)]
       /\ Len(uploads) = 1
C2_Witness ==
    /\ pc = "idle"
    /\ Responded /\ upload_out.resp.status_code = 201
    /\ WellFormedId(upload_out.resp)
    /\ Len(chats) = 1

\* C3 (as claimed): analyze_document never lets an exception out, and what it
\* returns is a string.
C3_AlwaysReturnsString ==
    /\ pc # "crashed"
    /\ analysis_result # Unset => IsText(analysis_result)

\* C4 (as claimed): for a status outside {200, 201}, or a body without an id, no
\* chat request is issued and the returned string contains the status code or
\* the response body verbatim.
C4_StatusOrBodyVerbatim ==
    (Responded /\ (~SuccessStatus(upload_out.resp) \/ ~HasKeyId(upload_out.resp)))
    => /\ chats = <<>>
       /\ IsText(analysis_result)
       /\ \/ Contains(analysis_result.s, <<ToString(upload_out.resp.status_code)>>)
          \/ Contains(analysis_result.s, upload_out.resp.text)

\* C4 (amended): no chat request is issued in either case.  For a status
\* outside {200, 201} the result is exactly "Error uploading file: <status> -
\* <body>", so it holds both the status code and the body verbatim (400 with
\* {"error":"bad file"} gives the string of the scenario).  For status 200 or
\* 201 and a body without a usable id the result is "Error uploading file: no
\* file id returned: " followed by Python's rendering of the parsed object
\* when the body is a JSON object, and an "Error during analysis: " string when
\* it is not.
C4_UploadErrorStrings ==
    Responded =>
      LET r == upload_out.resp
          res == analysis_result
      IN /\ ~SuccessStatus(r) =>
              /\ chats = <<>>
              /\ IsText(res)
              /\ TextOf(res) = "Error uploading file: " \o ToString(r.status_code)
                                 \o " - " \o Flatten(r.text)
              /\ Contains(res.s, <<ToString(r.status_code)>>)
              /\ Contains(res.s, r.text)
         /\ (r.status_code = 400 /\ Flatten(r.text) = "{\"error\":\"bad file\"}") =>
              TextOf(res) = "Error uploading file: 400 - {\"error\":\"bad file\"}"
         /\ (SuccessStatus(r) /\ ~UsableId(r)) =>
              /\ chats = <<>>
              /\ IsText(res)
              /\ IF IsObject(r)
                 THEN TextOf(res) = "Error uploading file: no file id returned: "
                                      \o Flatten(PyRepr(r.value))
                 ELSE BeginsWith(res, "Error during analysis: ")
         /\ (SuccessStatus(r) /\ Flatten(r.text) = "{\"error\":\"bad file\"}") =>
              TextOf(res) = "Error uploading file: no file id returned: {'error': 'bad file'}"
C4_Witness ==
    /\ pc = "idle"
    /\ Responded
    /\ upload_out.resp.status_code = 400
    /\ Flatten(upload_out.resp.text) = "{\"error\":\"bad file\"}"
    /\ PyEq(mime_type, PdfMime)

NormalChat ==
    /\ ChatResponded
    /\ chat_out.resp.choices.t = "list"
    /\ chat_out.resp.choices.elems # <<>>
FirstChoiceText == chat_out.resp.choices.elems[1].message.content

\* C5: once the chat call has returned a response with at least one choice,
\* what analyze_document returned is the first choice's message content, piece
\* for piece, and it is what main() writes last.
C5_ResultIsFirstChoice ==
    NormalChat =>
      /\ pc \in {"returned", "idle"}
      /\ analysis_result = FirstChoiceText
      /\ pc = "idle" => ui[Len(ui)] = Call("write", FirstChoiceText)
C5_Witness ==
    /\ pc = "idle"
    /\ NormalChat
    /\ Len(chat_out.resp.choices.elems) = 2
    /\ analysis_result = Str(<<"first">>)

\* C6: an exception of the chat call, of the upload call, or of reading either
\* response ends the invocation with the string "Error during analysis: "
\* followed by the exception's text.
C6_ExceptionsBecomeText ==
    /\ pc # "crashed"
    /\ ChatThrew =>
         /\ BeginsWith(analysis_result, "Error during analysis: ")
         /\ TextOf(analysis_result)
              = "Error during analysis: " \o Flatten(chat_out.exc.msg)
    /\ UploadThrew =>
         /\ BeginsWith(analysis_result, "Error during analysis: ")
         /\ TextOf(analysis_result)
              = "Error during analysis: " \o Flatten(upload_out.exc.msg)
    /\ (Responded /\ SuccessStatus(upload_out.resp) /\ ~upload_out.resp.isjson) =>
         /\ IsText(analysis_result)
         /\ TextOf(analysis_result)
              = "Error during analysis: Expecting value: line 1 column 1 (char 0)"
    /\ (Responded /\ SuccessStatus(upload_out.resp) /\ upload_out.resp.isjson
          /\ upload_out.resp.value.t = "list") =>
         /\ IsText(analysis_result)
         /\ TextOf(analysis_result)
              = "Error during analysis: 'list' object has no attribute 'get'"
    /\ (ChatResponded /\ chat_out.resp.choices = List(<<>>)) =>
         /\ IsText(analysis_result)
         /\ TextOf(analysis_result) = "Error during analysis: list index out of range"
C6_Witness ==
    /\ pc = "idle"
    /\ ChatThrew
    /\ TextOf(analysis_result) = "Error during analysis: Connection error."

KeyAbsent ==
    \/ OPENAI_API_KEY = None
    \/ IsText(OPENAI_API_KEY) /\ TextOf(OPENAI_API_KEY) = ""

\* C7: in a run that found no credential, the error is shown, the run is
\* halted, and no upload or chat request has been issued.
C7_NoKeyNoCalls ==
    KeyAbsent =>
      /\ pc = "halted"
      /\ ui = <<Call("error", KeyErrorText)>>
      /\ uploads = <<>>
      /\ chats = <<>>
C7_Witness == runs = 2 /\ OPENAI_API_KEY = None /\ pc = "halted"

ImageSlash(m) ==
    /\ m.t = "str"
    /\ Len(m.s) >= 6
    /\ m.s[1] = "i" /\ m.s[2] = "m" /\ m.s[3] = "a"
    /\ m.s[4] = "g" /\ m.s[5] = "e" /\ m.s[6] = "/"

\* C8: every upload request carries purpose "vision" exactly when its MIME
\* type starts with "image/", and "user_data" otherwise (application/pdf, the
\* empty type and no type among them).
C8_PurposeTag ==
    \A i \in 1..Len(uploads) :
      LET m == uploads[i].files.file.mime_type
          p == uploads[i].data.purpose
      IN /\ p \in {"vision", "user_data"}
         /\ p = "vision" <=> ImageSlash(m)
         /\ (m = None \/ m = MimePdf \/ m = Str(<<>>)) => p = "user_data"
C8_Witness ==
    /\ uploads # <<>>
    /\ uploads[1].data.purpose = "vision"
    /\ uploads[1].files.file.mime_type = MimeJpeg

IsPdf(type) == type.t = "str" /\ Flatten(type.s) = "application/pdf"
Decodable(bytes) == bytes \in {PngBytes, JpegBytes}
Warned == \E i \in 1..Len(ui) : ui[i] = Call("warning", PreviewWarning)
OriginalFilePart ==
    [filename  |-> IF uploaded_file.name = Unset
                   THEN Str(<<"uploaded_document">>) ELSE uploaded_file.name,
     content   |-> uploaded_file.value,
     mime_type |-> uploaded_file.type]

\* C9: for a file that is not declared application/pdf and whose bytes do not
\* decode as an image, the warning is shown, the preview is absent, the run
\* goes on to the analysis, and the upload carries the file's own bytes, MIME
\* type and filename.
C9_BadPreviewStillAnalyzed ==
    (uploaded_file.t = "file" /\ ~IsPdf(uploaded_file.type)
       /\ ~Decodable(uploaded_file.value))
    => /\ preview_image = None
       /\ Warned
       /\ pc \in {"analyze", "await_upload", "await_chat", "returned", "idle"}
       /\ pc = "analyze" => ENABLED AnalyzeUpload
       /\ pc # "analyze" => Len(uploads) = 1 /\ uploads[1].files.file = OriginalFilePart
C9_Witness ==
    /\ pc = "idle"
    /\ uploaded_file.t = "file"
    /\ uploaded_file.type = MimePng
    /\ uploaded_file.value = JunkBytes
    /\ Warned
    /\ Len(chats) = 1

\* C10: for a file declared application/pdf no decoding is tried and the
\* preview is absent, whatever its bytes; a preview is present only for a file
\* not declared PDF whose bytes decoded, and it is the image of those bytes.
C10_NoPreviewForPdf ==
    uploaded_file.t = "file" =>
      /\ IsPdf(uploaded_file.type) =>
           /\ decodes = 0
           /\ preview_image = None
           /\ ~Warned
      /\ preview_image.t = "image" =>
           /\ ~IsPdf(uploaded_file.type)
           /\ Decodable(uploaded_file.value)
           /\ preview_image.data = uploaded_file.value
           /\ decodes = 1
C10_Witness ==
    /\ pc = "idle"
    /\ uploaded_file.t = "file"
    /\ IsPdf(uploaded_file.type)
    /\ uploaded_file.value = PngBytes
    /\ preview_image = None

====
